---- MODULE Spec2Model ----
(***************************************************************************)
(* A model of the C-ABI boundary of gomlx/tokenizers (rs/src/lib.rs,       *)
(* rs/src/encode.rs, rs/src/configure.rs): the handle life cycle, the      *)
(* marshaling of engine encodings into flat buffers, the release protocol, *)
(* decode, and the truncation and padding configuration.                   *)
(*                                                                         *)
(* Memory is modelled as a heap of live allocations.  A raw pointer is an  *)
(* integer: Null, Dangling (the well-aligned non-null pointer of a Vec     *)
(* that never allocated) or the identifier of an allocation.  The          *)
(* tokenization engine (the `tokenizers` crate) is not part of the         *)
(* repository; it is represented by a small word-level fixture.            *)
(***************************************************************************)
EXTENDS Integers, Sequences, FiniteSets

VARIABLES
    heap,      \* live allocations: allocation id -> [kind, cap, data]
    fault,     \* memory faults seen so far: "double_free", "bad_layout"
    made,      \* allocation ids made by the most recent encode/encode_batch call
    proc,      \* "running", or "aborted" once a panic crossed the boundary
    hnd,       \* the handle the host got from from_bytes (Null before)
    hndFreed,  \* the host has passed hnd to free_tokenizer
    strs,      \* C strings the host owns and has not released yet
    agg,       \* the EncodeResults the host holds, or NoAgg
    cleared,   \* "no", or how the last set_truncation on the handle cleared the
               \* truncation: "after_set" (one was configured) or "fresh"
    ret        \* the last boundary call: its name, arguments and return value

vars == <<heap, fault, made, proc, hnd, hndFreed, strs, agg, cleared, ret>>

(***************************************************************************)
(* Bounds of the model.                                                    *)
(***************************************************************************)
MaxBatch == 2      \* encode_batch is called with num_messages <= MaxBatch
MaxLength == 2     \* TruncationParams.max_length ranges over 1..MaxLength
MaxStride == 1     \* TruncationParams.stride ranges over 0..MaxStride
MaxStrs == 2       \* the host holds at most MaxStrs unreleased pad-token strings

(***************************************************************************)
(* Raw pointers.                                                           *)
(***************************************************************************)
Null == 0
Dangling == -1

Min(S) == CHOOSE x \in S : \A y \in S : x <= y

(***************************************************************************)
(* Rust strings.  A string is its text and whether it holds an interior    *)
(* NUL byte, the one property CString::new looks at.                       *)
(***************************************************************************)
Str(s) == [s |-> s, nul |-> FALSE]
StrNul(s) == [s |-> s, nul |-> TRUE]

\* format!("{prefix}{e}")
Format(prefix, e) == [s |-> prefix \o e.s, nul |-> e.nul]

\* std::ffi::CString::new(bytes): Err(NulError) on an interior NUL byte.
CStringNewOk(str) == ~str.nul

NulErrorMsg == Str("nul byte found in provided data")

(***************************************************************************)
(* The heap.  M is a memory record [heap, fault, made].                    *)
(***************************************************************************)
Mem(h, f, m) == [heap |-> h, fault |-> f, made |-> m]

FreshId(h) == Min((1..(Cardinality(DOMAIN h) + 1)) \ DOMAIN h)

\* A new allocation of `cap` elements holding `data`.
Alloc(M, kind, cap, data) ==
    LET id == FreshId(M.heap)
    IN  [mem |-> Mem([x \in DOMAIN M.heap \cup {id} |->
                         IF x = id THEN [kind |-> kind, cap |-> cap, data |-> data]
                                   ELSE M.heap[x]],
                     M.fault, M.made \cup {id}),
         ptr |-> id]

\* Deallocation of the allocation at p, expected to be of `kind` with capacity
\* `cap`; a dangling pointer with capacity 0 owns nothing.
Dealloc(M, p, kind, cap) ==
    IF p = Dangling /\ cap = 0 THEN M
    ELSE IF p \notin DOMAIN M.heap
         THEN Mem(M.heap, M.fault \cup {"double_free"}, M.made)
         ELSE Mem([x \in DOMAIN M.heap \ {p} |-> M.heap[x]],
                  IF M.heap[p].kind = kind /\ M.heap[p].cap = cap
                  THEN M.fault ELSE M.fault \cup {"bad_layout"},
                  M.made)

\* Vec<T> with `cap` reserved elements: no allocation when cap = 0.
VecAlloc(M, kind, cap, data) ==
    IF cap = 0 THEN [mem |-> M, ptr |-> Dangling]
    ELSE Alloc(M, kind, cap, data)

\* CString::new(str).unwrap().into_raw(): the text plus its terminator.
CStringIntoRaw(M, str) == Alloc(M, "cstring", Len(str.s) + 1, str)

\* drop(CString::from_raw(p)): the length is recomputed from the terminator.
CStringDrop(M, p) ==
    IF p \in DOMAIN M.heap
    THEN Dealloc(M, p, "cstring", M.heap[p].cap)
    ELSE Dealloc(M, p, "cstring", 0)

(***************************************************************************)
(* The engine fixture.  A Tokenizer is a word-level vocabulary over the     *)
(* characters of the input: "a" is in the vocabulary, every other character *)
(* is out of it and maps to the unknown token, when the vocabulary has one. *)
(* The model definition (the bytes given to from_bytes) fixes the kind of   *)
(* vocabulary.  The engine keeps the truncation and padding options.        *)
(***************************************************************************)
None == [some |-> FALSE]
Some(v) == [some |-> TRUE, v |-> v]

ModelBytes ==
    {"wordlevel_unk", "wordlevel_nounk", "wordlevel_nulunk", "malformed", "malformed_nul"}

\* The definitions loaded where the vocabulary plays no part.
CfgModelBytes == {"wordlevel_unk", "malformed"}

\* Tokenizer::from_bytes: a parse error carries the offending text of the
\* definition, which may hold a NUL character (a JSON "\u0000" escape).
EngineFromBytes(bytes) ==
    CASE bytes = "malformed" ->
            [ok |-> FALSE, err |-> Str("expected value at line 1 column 1")]
      [] bytes = "malformed_nul" ->
            [ok |-> FALSE, err |-> StrNul("unknown variant at line 1 column 30")]
      [] OTHER ->
            [ok |-> TRUE,
             t |-> [vocab |-> bytes, truncation |-> None, padding |-> None]]

\* The characters of a Rust String and their UTF-8 widths; "R" is U+FFFD.
CharWidth(ch) == CASE ch = "a" -> 1 [] ch = "e" -> 2 [] OTHER -> 3

\* The units of a C string handed in by the host: the characters "a" and "e"
\* (a two-byte character) and "x", a byte that is not valid UTF-8.
Units == {"a", "e", "x"}
Texts == {<<>>, <<"e", "a">>, <<"a", "x">>}

ValidUtf8(text) == \A i \in 1..Len(text) : text[i] # "x"

\* CStr::to_string_lossy().into_owned(): invalid bytes become U+FFFD.
ToStringLossy(text) == [i \in 1..Len(text) |-> IF text[i] = "x" THEN "R" ELSE text[i]]

ClsId == 2
UnkId == 0
WordId == 1

\* The number of special tokens the engine adds to a single sequence.
NAddedTokens == 1

InVocab(ch) == ch = "a"

UnkText(vocab) ==
    IF vocab = "wordlevel_nulunk" THEN StrNul("[UNK]") ELSE Str("[UNK]")

\* Start offset of character i of s: bytes before it, or characters before it.
RECURSIVE BytesBefore(_, _)
BytesBefore(s, i) == IF i <= 1 THEN 0 ELSE BytesBefore(s, i - 1) + CharWidth(s[i - 1])

OffsetOf(s, i, char_mode) ==
    IF char_mode THEN [start |-> i - 1, end |-> i]
    ELSE [start |-> BytesBefore(s, i), end |-> BytesBefore(s, i) + CharWidth(s[i])]

\* The tokens of a sequence of n that the truncation keeps, as the index of
\* the first one and their number: max_length counts the added tokens, and
\* direction is the side tokens are removed from.
TruncationWindow(t, n, add_special_tokens) ==
    IF ~t.truncation.some THEN [first |-> 1, keep |-> n]
    ELSE LET room == t.truncation.v.max_length
                        - (IF add_special_tokens THEN NAddedTokens ELSE 0)
             keep == IF room < 0 THEN 0 ELSE IF room < n THEN room ELSE n
         IN  [first |-> IF t.truncation.v.direction = "Left" THEN n - keep + 1 ELSE 1,
              keep |-> keep]

\* The length the padding brings an encoding to, `longest` being the length
\* of the longest encoding of the batch.
PadTarget(t, longest) ==
    IF ~t.padding.some THEN 0
    ELSE LET p == t.padding.v
             base == IF p.strategy.kind = "Fixed" THEN p.strategy.size ELSE longest
         IN  IF p.pad_to_multiple_of.some /\ (base % p.pad_to_multiple_of.v) > 0
             THEN base + (p.pad_to_multiple_of.v - (base % p.pad_to_multiple_of.v))
             ELSE base

\* Encoding::pad: pad tokens on the side of the padding's direction up to
\* `target`; an encoding that long already is left alone.
PadTo(t, enc, target) ==
    IF ~t.padding.some \/ Len(enc.ids) >= target THEN enc
    ELSE LET p == t.padding.v
             k == target - Len(enc.ids)
             side(xs, x) == IF p.direction = "Left" THEN [i \in 1..k |-> x] \o xs
                            ELSE xs \o [i \in 1..k |-> x]
         IN  [ids |-> side(enc.ids, p.pad_id),
              type_ids |-> side(enc.type_ids, p.pad_type_id),
              tokens |-> side(enc.tokens, p.pad_token),
              special_tokens_mask |-> side(enc.special_tokens_mask, 1),
              attention_mask |-> side(enc.attention_mask, 0),
              offsets |-> side(enc.offsets, [start |-> 0, end |-> 0])]

\* Tokenizer::encode / Tokenizer::encode_char_offsets on one String.
EngineEncode(t, s, add_special_tokens, char_mode) ==
    IF t.vocab = "wordlevel_nounk" /\ \E i \in 1..Len(s) : ~InVocab(s[i])
    THEN [ok |-> FALSE, err |-> Str("WordLevel error: Missing [UNK] token from the vocabulary")]
    ELSE LET w == TruncationWindow(t, Len(s), add_special_tokens)
             n == w.keep
             at(j) == w.first + j - 1
             body == [ids |-> [j \in 1..n |-> IF InVocab(s[at(j)]) THEN WordId ELSE UnkId],
                      type_ids |-> [j \in 1..n |-> 0],
                      tokens |-> [j \in 1..n |-> IF InVocab(s[at(j)]) THEN Str(s[at(j)])
                                                 ELSE UnkText(t.vocab)],
                      special_tokens_mask |-> [j \in 1..n |-> 0],
                      attention_mask |-> [j \in 1..n |-> 1],
                      offsets |-> [j \in 1..n |-> OffsetOf(s, at(j), char_mode)]]
             enc == IF add_special_tokens
                    THEN [ids |-> <<ClsId>> \o body.ids,
                          type_ids |-> <<0>> \o body.type_ids,
                          tokens |-> <<Str("[CLS]")>> \o body.tokens,
                          special_tokens_mask |-> <<1>> \o body.special_tokens_mask,
                          attention_mask |-> <<1>> \o body.attention_mask,
                          offsets |-> <<[start |-> 0, end |-> 0]>> \o body.offsets]
                    ELSE body
         IN  [ok |-> TRUE,
              enc |-> CHOOSE padded \in {PadTo(t, e, PadTarget(t, Len(e.ids))) : e \in {enc}} :
                         TRUE]

\* The encodings `ones` of the inputs of a batch padded together, or the
\* first failure among them.
PadBatch(t, ones) ==
    LET bad == {i \in DOMAIN ones : ~ones[i].ok}
        longest == IF bad # {} \/ DOMAIN ones = {} THEN 0
                   ELSE CHOOSE m \in {Len(ones[i].enc.ids) : i \in DOMAIN ones} :
                           \A i \in DOMAIN ones : Len(ones[i].enc.ids) <= m
    IN  IF bad # {} THEN [ok |-> FALSE, err |-> ones[Min(bad)].err]
        ELSE [ok |-> TRUE,
              encs |-> [i \in DOMAIN ones |-> PadTo(t, ones[i].enc, PadTarget(t, longest))]]

\* Tokenizer::encode_batch / encode_batch_char_offsets: one Encoding per
\* input, in input order, or the first failure.
EngineEncodeBatch(t, ss, add_special_tokens, char_mode) ==
    CHOOSE res \in {PadBatch(t, ones) :
                       ones \in {[i \in 1..Len(ss) |->
                                    EngineEncode(t, ss[i], add_special_tokens, char_mode)]}} :
        TRUE

(***************************************************************************)
(* lib.rs: from_bytes, free_tokenizer, free_string.                        *)
(***************************************************************************)
Running == proc = "running"

\* The host holds no EncodeResults.
NoAgg == [none |-> TRUE]

\* The host uses hnd only between a successful load and its release, and
\* releases an error string before the next call that may return one.
HandleValid == hnd # Null /\ ~hndFreed

\* What the host passes as a handle: the one it holds, or null.
Handles == {Null} \cup (IF HandleValid THEN {hnd} ELSE {})

Tok(h, p) == h[p].data

M0 == Mem(heap, fault, made)

from_bytes(bytes) ==
    /\ Running
    /\ hnd = Null
    /\ agg = NoAgg
    /\ strs = {}
    /\ LET r == EngineFromBytes(bytes)
       IN  IF r.ok
           THEN LET a == Alloc(M0, "tokenizer", 1, r.t)
                IN  /\ heap' = a.mem.heap
                    /\ hnd' = a.ptr
                    /\ ret' = [op |-> "from_bytes", bytes |-> bytes, returned |-> TRUE,
                               value |-> a.ptr, error |-> Null]
                    /\ UNCHANGED <<proc, strs>>
           ELSE IF CStringNewOk(r.err)
           THEN LET a == CStringIntoRaw(M0, r.err)
                IN  /\ heap' = a.mem.heap
                    /\ strs' = strs \cup {a.ptr}
                    /\ ret' = [op |-> "from_bytes", bytes |-> bytes, returned |-> TRUE,
                               value |-> Null, error |-> a.ptr]
                    /\ UNCHANGED <<proc, hnd>>
           ELSE \* CString::new(..).unwrap() panics
                /\ proc' = "aborted"
                /\ ret' = [op |-> "from_bytes", bytes |-> bytes, returned |-> FALSE]
                /\ UNCHANGED <<heap, hnd, strs>>
    /\ UNCHANGED <<fault, made, hndFreed, agg, cleared>>

\* free_tokenizer: returns on null; otherwise casts the pointer and drops
\* nothing.
free_tokenizer(ptr) ==
    /\ Running
    /\ ptr \in Handles
    /\ hndFreed' = (hndFreed \/ ptr # Null)
    /\ ret' = [op |-> "free_tokenizer", ptr |-> ptr, returned |-> TRUE]
    /\ UNCHANGED <<heap, fault, made, proc, hnd, strs, agg, cleared>>

\* free_string_impl without the null check.
free_string_impl_unchecked(M, ptr) == CStringDrop(M, ptr)

free_string_impl(M, ptr) == IF ptr = Null THEN M ELSE CStringDrop(M, ptr)

free_string(ptr) ==
    /\ Running
    /\ ptr \in strs \cup {Null}
    /\ LET m == free_string_impl(M0, ptr)
       IN  /\ heap' = m.heap
           /\ fault' = m.fault
    /\ strs' = strs \ {ptr}
    /\ ret' = [op |-> "free_string", ptr |-> ptr, returned |-> TRUE]
    /\ UNCHANGED <<made, proc, hnd, hndFreed, agg, cleared>>

(***************************************************************************)
(* encode.rs: marshaling of an Encoding into a Buffer.                     *)
(***************************************************************************)
EncodeParams ==
    [add_special_tokens : BOOLEAN, return_tokens : BOOLEAN, return_type_ids : BOOLEAN,
     return_special_tokens_mask : BOOLEAN, return_attention_mask : BOOLEAN,
     return_offsets : BOOLEAN, with_offsets_char_mode : BOOLEAN]

\* ForgetVec of a Vec that keeps room for one more element.
ForgetVecSpare(M, kind, xs) == Alloc(M, kind, Len(xs) + 1, xs)

\* vec.to_vec(); shrink_to_fit(); as_mut_ptr(); mem::forget(vec)
ForgetVec(M, kind, xs) == VecAlloc(M, kind, Len(xs), xs)

\* Overwrites the elements of the array at p (nothing to write through a
\* dangling pointer).
Store(M, p, data) ==
    IF p \in DOMAIN M.heap
    THEN Mem([M.heap EXCEPT ![p].data = data], M.fault, M.made)
    ELSE M

\* The loop of encode_process over the token strings, from token i on:
\* CString::new(token)?.into_raw() is pushed, or the loop is left at the
\* first token CString::new rejects.
RECURSIVE PushTokens(_, _, _, _)
PushTokens(M, toks, i, acc) ==
    IF i > Len(toks) THEN [ok |-> TRUE, mem |-> M, ptrs |-> acc]
    ELSE IF ~CStringNewOk(toks[i]) THEN [ok |-> FALSE, mem |-> M, ptrs |-> acc]
    ELSE LET a == CStringIntoRaw(M, toks[i])
         IN  PushTokens(a.mem, toks, i + 1, Append(acc, a.ptr))

\* OptField with a field that was not requested left as an empty Vec's
\* pointer instead of null.
OptFieldEmptyVec(M, wanted, kind, xs) ==
    IF wanted THEN ForgetVec(M, kind, xs) ELSE [mem |-> M, ptr |-> Dangling]

\* An optional u32 field: allocated when requested, null otherwise.
OptField(M, wanted, kind, xs) ==
    IF wanted THEN ForgetVec(M, kind, xs) ELSE [mem |-> M, ptr |-> Null]

encode_process(M, encoding, options) ==
    LET ids == ForgetVec(M, "u32", encoding.ids)
        len == Len(encoding.ids)
        vec_tokens == VecAlloc(ids.mem, "ptrs", Len(encoding.tokens), <<>>)
        pushed == PushTokens(vec_tokens.mem, encoding.tokens, 1, <<>>)
    IN  IF options.return_tokens /\ ~pushed.ok
        THEN \* `?` returns the NulError; vec_tokens is dropped, the raw strings
             \* and the forgotten ids are not
             [ok |-> FALSE,
              mem |-> Dealloc(pushed.mem, vec_tokens.ptr, "ptrs", Len(encoding.tokens)),
              err |-> NulErrorMsg]
        ELSE LET tokens == IF options.return_tokens
                           THEN [mem |-> Store(pushed.mem, vec_tokens.ptr, pushed.ptrs),
                                 ptr |-> vec_tokens.ptr]
                           ELSE [mem |-> ids.mem, ptr |-> Null]
                 type_ids == OptField(tokens.mem, options.return_type_ids,
                                      "u32", encoding.type_ids)
                 special_tokens_mask ==
                     OptField(type_ids.mem, options.return_special_tokens_mask,
                              "u32", encoding.special_tokens_mask)
                 attention_mask ==
                     OptField(special_tokens_mask.mem, options.return_attention_mask,
                              "u32", encoding.attention_mask)
                 offsets == OptField(attention_mask.mem, options.return_offsets,
                                     "offsets", encoding.offsets)
             IN  [ok |-> TRUE,
                  mem |-> offsets.mem,
                  buf |-> [ids |-> ids.ptr,
                           type_ids |-> type_ids.ptr,
                           special_tokens_mask |-> special_tokens_mask.ptr,
                           attention_mask |-> attention_mask.ptr,
                           tokens |-> tokens.ptr,
                           offsets |-> offsets.ptr,
                           len |-> len]]

\* An Err(message) of a Result; `panic` marks a panic raised instead.
Err(M, msg) == [tag |-> "err", mem |-> M, err |-> msg]
Panic(M) == [tag |-> "panic", mem |-> M]
Ok(M, v) == [tag |-> "ok", mem |-> M, val |-> v]

\* result_to_encode_results with the error aggregate's len copied from
\* encode_impl's `len: 1`.
result_to_encode_results_len1(r) ==
    CASE r.tag = "ok" -> r
      [] r.tag = "panic" -> r
      [] OTHER ->
            IF CStringNewOk(r.err)
            THEN LET a == CStringIntoRaw(r.mem, r.err)
                 IN  Ok(a.mem, [len |-> 1, encoded |-> Null, error |-> a.ptr])
            ELSE Panic(r.mem)

result_to_encode_results(r) ==
    CASE r.tag = "ok" -> r
      [] r.tag = "panic" -> r
      [] OTHER ->
            IF CStringNewOk(r.err)
            THEN LET a == CStringIntoRaw(r.mem, r.err)
                 IN  Ok(a.mem, [len |-> 0, encoded |-> Null, error |-> a.ptr])
            ELSE Panic(r.mem)

convert_to_tokenizer_ref(M, tokenizer_ptr) ==
    IF tokenizer_ptr = Null THEN Err(M, Str("tokenizer passed is null"))
    ELSE Ok(M, Tok(M.heap, tokenizer_ptr))

encode_impl(M, tokenizer_ptr, message, options) ==
    LET tokenizer == convert_to_tokenizer_ref(M, tokenizer_ptr)
    IN  IF tokenizer.tag # "ok" THEN tokenizer
        ELSE IF ~ValidUtf8(message) THEN Panic(M)     \* to_str().unwrap()
        ELSE
        LET encoding_res == EngineEncode(tokenizer.val, message,
                                         options.add_special_tokens,
                                         options.with_offsets_char_mode)
        IN  IF ~encoding_res.ok
            THEN Err(M, Format("encoding failed: ", encoding_res.err))
            ELSE
            LET buffer == encode_process(M, encoding_res.enc, options)
            IN  IF ~buffer.ok THEN Err(buffer.mem, buffer.err)
                ELSE LET vec_buf == Alloc(buffer.mem, "buffers", 1, <<buffer.buf>>)
                     IN  Ok(vec_buf.mem,
                            [len |-> 1, encoded |-> vec_buf.ptr, error |-> Null])

\* PushBuffers with each buffer inserted at the front of vec_buffers.
RECURSIVE PushBuffersFront(_, _, _, _, _)
PushBuffersFront(M, encs, options, i, acc) ==
    IF i > Len(encs) THEN [ok |-> TRUE, mem |-> M, bufs |-> acc]
    ELSE LET b == encode_process(M, encs[i], options)
         IN  IF ~b.ok THEN [ok |-> FALSE, mem |-> b.mem, err |-> b.err]
             ELSE PushBuffersFront(b.mem, encs, options, i + 1, <<b.buf>> \o acc)

\* The loop of encode_batch_impl over the encodings, from encoding i on.
RECURSIVE PushBuffers(_, _, _, _, _)
PushBuffers(M, encs, options, i, acc) ==
    IF i > Len(encs) THEN [ok |-> TRUE, mem |-> M, bufs |-> acc]
    ELSE LET b == encode_process(M, encs[i], options)
         IN  IF ~b.ok THEN [ok |-> FALSE, mem |-> b.mem, err |-> b.err]
             ELSE PushBuffers(b.mem, encs, options, i + 1, Append(acc, b.buf))

\* encode_batch_impl calling the byte-offset entry point whatever the option.
encode_batch_impl_byte_offsets(M, tokenizer_ptr, num_messages, messages, options) ==
    LET tokenizer == convert_to_tokenizer_ref(M, tokenizer_ptr)
    IN  IF tokenizer.tag # "ok" THEN tokenizer
        ELSE
        LET encode_messages == [index \in 1..num_messages |-> ToStringLossy(messages[index])]
            encoding_res == EngineEncodeBatch(tokenizer.val, encode_messages,
                                              options.add_special_tokens,
                                              FALSE)
        IN  IF ~encoding_res.ok
            THEN Err(M, Format("encoding failed: ", encoding_res.err))
            ELSE
            LET vec_buffers == VecAlloc(M, "buffers", num_messages, <<>>)
                pushed == PushBuffers(vec_buffers.mem, encoding_res.encs, options, 1, <<>>)
            IN  IF ~pushed.ok
                THEN \* `?` drops vec_buffers; a Buffer has no destructor
                     Err(Dealloc(pushed.mem, vec_buffers.ptr, "buffers", num_messages),
                         pushed.err)
                ELSE Ok(Store(pushed.mem, vec_buffers.ptr, pushed.bufs),
                        [len |-> Len(pushed.bufs), encoded |-> vec_buffers.ptr,
                         error |-> Null])

encode_batch_impl(M, tokenizer_ptr, num_messages, messages, options) ==
    LET tokenizer == convert_to_tokenizer_ref(M, tokenizer_ptr)
    IN  IF tokenizer.tag # "ok" THEN tokenizer
        ELSE
        LET encode_messages == [index \in 1..num_messages |-> ToStringLossy(messages[index])]
            encoding_res == EngineEncodeBatch(tokenizer.val, encode_messages,
                                              options.add_special_tokens,
                                              options.with_offsets_char_mode)
        IN  IF ~encoding_res.ok
            THEN Err(M, Format("encoding failed: ", encoding_res.err))
            ELSE
            LET vec_buffers == VecAlloc(M, "buffers", num_messages, <<>>)
                pushed == PushBuffers(vec_buffers.mem, encoding_res.encs, options, 1, <<>>)
            IN  IF ~pushed.ok
                THEN \* `?` drops vec_buffers; a Buffer has no destructor
                     Err(Dealloc(pushed.mem, vec_buffers.ptr, "buffers", num_messages),
                         pushed.err)
                ELSE Ok(Store(pushed.mem, vec_buffers.ptr, pushed.bufs),
                        [len |-> Len(pushed.bufs), encoded |-> vec_buffers.ptr,
                         error |-> Null])

(***************************************************************************)
(* encode.rs: the release path.                                            *)
(***************************************************************************)
\* Vec::from_raw_parts(ptr, len, len), dropped.
DropVec(M, p, kind, len) == IF p = Null THEN M ELSE Dealloc(M, p, kind, len)

\* drop(CString::from_raw(s)) for each of the strings, from string i on.
RECURSIVE DropStrings(_, _, _)
DropStrings(M, ptrs, i) ==
    IF i > Len(ptrs) THEN M ELSE DropStrings(CStringDrop(M, ptrs[i]), ptrs, i + 1)

\* The strings read through the token-pointer array.
Pointees(M, p) == IF p \in DOMAIN M.heap THEN M.heap[p].data ELSE <<>>

\* FreeTokens with the token strings left alone: only the array is dropped.
FreeTokensArrayOnly(M, p, len) ==
    IF p = Null THEN M ELSE Dealloc(M, p, "ptrs", len)

FreeTokens(M, p, len) ==
    IF p = Null THEN M
    ELSE Dealloc(DropStrings(M, Pointees(M, p), 1), p, "ptrs", len)

free_buffer(M, buf) ==
    LET m1 == DropVec(M, buf.ids, "u32", buf.len)
        m2 == DropVec(m1, buf.type_ids, "u32", buf.len)
        m3 == DropVec(m2, buf.special_tokens_mask, "u32", buf.len)
        m4 == DropVec(m3, buf.attention_mask, "u32", buf.len)
        m5 == FreeTokens(m4, buf.tokens, buf.len)
    IN  DropVec(m5, buf.offsets, "offsets", buf.len)

RECURSIVE FreeBuffers(_, _, _)
FreeBuffers(M, bufs, i) ==
    IF i > Len(bufs) THEN M ELSE FreeBuffers(free_buffer(M, bufs[i]), bufs, i + 1)

free_encode_results_impl(M, results) ==
    LET m1 == IF results.error # Null THEN free_string_impl(M, results.error) ELSE M
    IN  IF results.len > 0
        THEN Dealloc(FreeBuffers(m1, Pointees(m1, results.encoded), 1),
                     results.encoded, "buffers", results.len)
        ELSE m1

(***************************************************************************)
(* encode.rs: the exported calls, as the host makes them.  The host holds   *)
(* one EncodeResults at a time and starts an encode call only when every   *)
(* allocation other than its handle has been released.                     *)
(***************************************************************************)
Quiescent == agg = NoAgg /\ DOMAIN heap \subseteq {hnd}

\* The outcome of an encode call handed back to the host.
Return(op, tokenizer_ptr, messages, options, r) ==
    /\ heap' = r.mem.heap
    /\ fault' = r.mem.fault
    /\ made' = r.mem.made
    /\ IF r.tag = "panic"
       THEN /\ proc' = "aborted"
            /\ agg' = agg
            /\ ret' = [op |-> op, handle |-> tokenizer_ptr, messages |-> messages,
                       options |-> options, returned |-> FALSE]
       ELSE /\ proc' = proc
            /\ agg' = r.val
            /\ ret' = [op |-> op, handle |-> tokenizer_ptr, messages |-> messages,
                       options |-> options, returned |-> TRUE, value |-> r.val]
    /\ UNCHANGED <<hnd, hndFreed, strs, cleared>>

encode(tokenizer_ptr, message, options) ==
    /\ Running
    /\ Quiescent
    /\ tokenizer_ptr \in Handles
    /\ \E r \in {result_to_encode_results(
                   encode_impl(Mem(heap, fault, {}), tokenizer_ptr, message, options))} :
          Return("encode", tokenizer_ptr, <<message>>, options, r)

encode_batch(tokenizer_ptr, num_messages, messages, options) ==
    /\ Running
    /\ Quiescent
    /\ tokenizer_ptr \in Handles
    /\ \E r \in {result_to_encode_results(
                   encode_batch_impl(Mem(heap, fault, {}), tokenizer_ptr,
                                     num_messages, messages, options))} :
          Return("encode_batch", tokenizer_ptr, messages, options, r)

\* free_encode_results on the aggregate the host holds.  ret.live is what is
\* left live of the allocations made by the call that built the aggregate,
\* ret.freed the kinds of those the release reclaimed.
free_encode_results ==
    /\ Running
    /\ agg # NoAgg
    /\ LET m == free_encode_results_impl(M0, agg)
       IN  /\ heap' = m.heap
           /\ fault' = m.fault
    /\ agg' = NoAgg
    /\ made' = {}
    /\ ret' = [op |-> "free_encode_results", returned |-> TRUE,
               len |-> agg.len, had_error |-> agg.error # Null,
               live |-> made \cap DOMAIN heap',
               freed |-> {heap[x].kind : x \in (made \cap DOMAIN heap) \ DOMAIN heap'}]
    /\ UNCHANGED <<proc, hnd, hndFreed, strs, cleared>>

(***************************************************************************)
(* configure.rs: set_truncation and get_truncation.                        *)
(***************************************************************************)
\* The TruncationParams records the host passes (direction and strategy are
\* u8: 99 and 7 are outside the documented domains).
TruncationParams ==
    [direction : {0, 1, 99}, strategy : {0, 1, 2, 7},
     max_length : NAddedTokens..MaxLength, stride : 0..MaxStride]

\* A null `params` pointer, or a pointer to a record.
TruncationArgs == {None} \cup {Some(p) : p \in TruncationParams}

DirectionOk(d) == d \in {0, 1}
StrategyOk(s) == s \in {0, 1, 2}

\* The record's fields as the engine's TruncationParams.
ToEngineTruncation(p) ==
    [max_length |-> p.max_length,
     direction |-> IF p.direction = 0 THEN "Left" ELSE "Right",
     stride |-> p.stride,
     strategy |-> CASE p.strategy = 0 -> "LongestFirst"
                    [] p.strategy = 1 -> "OnlyFirst"
                    [] OTHER -> "OnlySecond"]

\* The engine's TruncationParams as the record's fields.
FromEngineTruncation(p) ==
    [max_length |-> p.max_length,
     stride |-> p.stride,
     direction |-> IF p.direction = "Left" THEN 0 ELSE 1,
     strategy |-> CASE p.strategy = "LongestFirst" -> 0
                    [] p.strategy = "OnlyFirst" -> 1
                    [] OTHER -> 2]

\* Tokenizer::with_truncation: rejects a stride that leaves no room once the
\* added tokens are counted, before anything is changed; None always clears.
EngineWithTruncation(t, trunc) ==
    IF trunc.some /\ trunc.v.max_length - NAddedTokens < trunc.v.stride
    THEN [ok |-> FALSE, t |-> t,
          err |-> Str("tokenizer stride set too high")]
    ELSE [ok |-> TRUE, t |-> [t EXCEPT !.truncation = trunc]]

\* Tokenizer::get_truncation
EngineGetTruncation(t) == t.truncation

\* WithTruncationCall with the truncation cleared before the new one is set.
WithTruncationCallClearFirst(t, params) ==
    EngineWithTruncation([t EXCEPT !.truncation = None],
                         IF params.some THEN Some(ToEngineTruncation(params.v)) ELSE None)

\* WithTruncationCall with a null record taken as nothing to do.
WithTruncationCallSkipNull(t, params) ==
    IF params.some THEN EngineWithTruncation(t, Some(ToEngineTruncation(params.v)))
    ELSE [ok |-> TRUE, t |-> t]

\* tokenizer.with_truncation(None) for a null record, and
\* tokenizer.with_truncation(Some(..)) of the converted record otherwise.
WithTruncationCall(t, params) ==
    EngineWithTruncation(t, IF params.some THEN Some(ToEngineTruncation(params.v)) ELSE None)

set_truncation_impl(M, tokenizer_ptr, params) ==
    IF tokenizer_ptr = Null
    THEN LET a == CStringIntoRaw(M, Str("failed to cast tokenizer"))
         IN  Ok(a.mem, a.ptr)
    ELSE IF params.some /\ ~(DirectionOk(params.v.direction) /\ StrategyOk(params.v.strategy))
    THEN Panic(M)      \* panic!("invalid truncation direction" / "... strategy")
    ELSE
    LET result == WithTruncationCall(Tok(M.heap, tokenizer_ptr), params)
        m == Store(M, tokenizer_ptr, result.t)
    IN  IF ~result.ok
        THEN LET a == CStringIntoRaw(m, Format("failed tokenizer.with_truncation: ",
                                               result.err))
             IN  Ok(a.mem, a.ptr)
        ELSE Ok(m, Null)

\* The truncation the engine behind the host's handle holds.
CurTruncation == IF hnd = Null THEN None ELSE EngineGetTruncation(Tok(heap, hnd))

\* ret.prior is the engine's truncation before the call.
set_truncation(tokenizer_ptr, params) ==
    /\ Running
    /\ tokenizer_ptr \in Handles
    /\ strs = {}
    /\ LET r == set_truncation_impl(M0, tokenizer_ptr, params)
       IN  /\ heap' = r.mem.heap
           /\ IF r.tag = "panic"
              THEN /\ proc' = "aborted"
                   /\ strs' = strs
                   /\ ret' = [op |-> "set_truncation", handle |-> tokenizer_ptr,
                              params |-> params, prior |-> CurTruncation,
                              returned |-> FALSE]
              ELSE /\ proc' = proc
                   /\ strs' = strs \cup ({r.val} \ {Null})
                   /\ ret' = [op |-> "set_truncation", handle |-> tokenizer_ptr,
                              params |-> params, prior |-> CurTruncation,
                              returned |-> TRUE, value |-> r.val]
    /\ cleared' = IF tokenizer_ptr = Null THEN cleared
                  ELSE IF params.some THEN "no"
                  ELSE IF CurTruncation.some THEN "after_set" ELSE "fresh"
    /\ UNCHANGED <<fault, made, hnd, hndFreed, agg>>

\* get_truncation_impl with the caller's record zeroed when no truncation is
\* configured.
get_truncation_impl_zeroed(M, tokenizer_ptr, params) ==
    LET tokenizer == convert_to_tokenizer_ref(M, tokenizer_ptr)
    IN  IF tokenizer.tag # "ok" THEN Panic(M)
        ELSE LET p == EngineGetTruncation(tokenizer.val)
             IN  IF p.some
                 THEN Ok(M, [value |-> TRUE, params |-> FromEngineTruncation(p.v)])
                 ELSE Ok(M, [value |-> FALSE,
                             params |-> [direction |-> 0, strategy |-> 0,
                                         max_length |-> 0, stride |-> 0]])

\* The result of get_truncation: the return value and the caller's record.
get_truncation_impl(M, tokenizer_ptr, params) ==
    LET tokenizer == convert_to_tokenizer_ref(M, tokenizer_ptr)
    IN  IF tokenizer.tag # "ok" THEN Panic(M)     \* .expect("Invalid Tokenizer object!?")
        ELSE LET p == EngineGetTruncation(tokenizer.val)
             IN  IF p.some
                 THEN Ok(M, [value |-> TRUE, params |-> FromEngineTruncation(p.v)])
                 ELSE Ok(M, [value |-> FALSE, params |-> params])

\* The host passes a record it filled with `before`; ret.params is the record
\* after the call.
get_truncation(tokenizer_ptr, before) ==
    /\ Running
    /\ tokenizer_ptr \in Handles
    /\ LET r == get_truncation_impl(M0, tokenizer_ptr, before)
       IN  IF r.tag = "panic"
           THEN /\ proc' = "aborted"
                /\ ret' = [op |-> "get_truncation", handle |-> tokenizer_ptr,
                           before |-> before, returned |-> FALSE]
           ELSE /\ proc' = proc
                /\ ret' = [op |-> "get_truncation", handle |-> tokenizer_ptr,
                           before |-> before, returned |-> TRUE,
                           value |-> r.val.value, params |-> r.val.params]
    /\ UNCHANGED <<heap, fault, made, hnd, hndFreed, strs, agg, cleared>>

\* What the host's record holds before a get_truncation call.
BlankRecords ==
    {[direction |-> 0, strategy |-> 0, max_length |-> 0, stride |-> 0],
     [direction |-> 1, strategy |-> 2, max_length |-> MaxLength, stride |-> MaxStride]}

(***************************************************************************)
(* lib.rs: decode and vocab_size.                                          *)
(***************************************************************************)
\* An id no token of the vocabulary has.
OovId == 9

\* The id arrays the host passes to decode.
IdArrays == {<<>>, <<ClsId, WordId>>, <<UnkId>>, <<WordId, OovId>>}

\* The text of one id of the vocabulary.
IdText(vocab, id) ==
    CASE id = WordId -> Str("a")
      [] id = ClsId -> Str("[CLS]")
      [] OTHER -> UnkText(vocab)

RECURSIVE JoinTexts(_, _, _, _)
JoinTexts(vocab, ids, skip_special_tokens, i) ==
    IF i > Len(ids) THEN Str("")
    ELSE LET rest == JoinTexts(vocab, ids, skip_special_tokens, i + 1)
         IN  IF skip_special_tokens /\ ids[i] = ClsId THEN rest
             ELSE [s |-> IdText(vocab, ids[i]).s \o rest.s,
                   nul |-> IdText(vocab, ids[i]).nul \/ rest.nul]

\* Tokenizer::decode: the texts of the ids joined, or a failure on an id that
\* cannot be decoded.
EngineDecode(t, ids, skip_special_tokens) ==
    IF \E i \in 1..Len(ids) : ids[i] \notin {UnkId, WordId, ClsId}
    THEN [ok |-> FALSE, err |-> Str("decode failed")]
    ELSE [ok |-> TRUE, text |-> JoinTexts(t.vocab, ids, skip_special_tokens, 1)]

\* Tokenizer::get_vocab_size(true)
EngineVocabSize(t) == IF t.vocab = "wordlevel_nounk" THEN 2 ELSE 3

\* decode_impl with the engine's padding switched off for the decoding and
\* not restored.
decode_impl_padding_off(M, tokenizer_ptr, ids, skip_special_tokens) ==
    IF tokenizer_ptr = Null THEN Panic(M)
    ELSE LET m == Store(M, tokenizer_ptr, [Tok(M.heap, tokenizer_ptr) EXCEPT !.padding = None])
             string == EngineDecode(Tok(m.heap, tokenizer_ptr), ids, skip_special_tokens)
         IN  IF ~string.ok THEN Panic(m)
             ELSE IF ~CStringNewOk(string.text) THEN Panic(m)
             ELSE LET c_string == CStringIntoRaw(m, string.text)
                  IN  Ok(c_string.mem, c_string.ptr)

decode_impl(M, tokenizer_ptr, ids, skip_special_tokens) ==
    IF tokenizer_ptr = Null THEN Panic(M)        \* .expect("failed to cast tokenizer")
    ELSE LET string == EngineDecode(Tok(M.heap, tokenizer_ptr), ids, skip_special_tokens)
         IN  IF ~string.ok THEN Panic(M)         \* .expect("failed to decode input")
             ELSE IF ~CStringNewOk(string.text) THEN Panic(M)    \* CString::new(..).unwrap()
             ELSE LET c_string == CStringIntoRaw(M, string.text)
                  IN  Ok(c_string.mem, c_string.ptr)

decode(tokenizer_ptr, ids, skip_special_tokens) ==
    /\ Running
    /\ tokenizer_ptr \in Handles
    /\ strs = {}
    /\ LET r == decode_impl(M0, tokenizer_ptr, ids, skip_special_tokens)
       IN  /\ heap' = r.mem.heap
           /\ IF r.tag = "panic"
              THEN /\ proc' = "aborted"
                   /\ strs' = strs
                   /\ ret' = [op |-> "decode", handle |-> tokenizer_ptr, ids |-> ids,
                              skip_special_tokens |-> skip_special_tokens,
                              returned |-> FALSE]
              ELSE /\ proc' = proc
                   /\ strs' = strs \cup {r.val}
                   /\ ret' = [op |-> "decode", handle |-> tokenizer_ptr, ids |-> ids,
                              skip_special_tokens |-> skip_special_tokens,
                              returned |-> TRUE, value |-> r.val]
    /\ UNCHANGED <<fault, made, hnd, hndFreed, agg, cleared>>

vocab_size(ptr) ==
    /\ Running
    /\ ptr \in Handles
    /\ IF ptr = Null                             \* .expect("failed to cast tokenizer")
       THEN /\ proc' = "aborted"
            /\ ret' = [op |-> "vocab_size", handle |-> ptr, returned |-> FALSE]
       ELSE /\ proc' = proc
            /\ ret' = [op |-> "vocab_size", handle |-> ptr, returned |-> TRUE,
                       value |-> EngineVocabSize(Tok(heap, ptr))]
    /\ UNCHANGED <<heap, fault, made, hnd, hndFreed, strs, agg, cleared>>

(***************************************************************************)
(* configure.rs: set_padding and get_padding.                              *)
(***************************************************************************)
\* A C string of the host that is not valid UTF-8.
InvalidUtf8Text == "<0xff>"

\* The PaddingParams records the host passes (pad_token is a null pointer or
\* a C string): all fields zero, a nonzero direction other than 1, two
\* fixed-length paddings and a pad token that is not valid UTF-8.
PaddingParams ==
    {[strategy |-> 0, direction |-> 0, pad_to_multiple_of |-> 0, pad_id |-> 0,
      pad_type_id |-> 0, pad_token |-> None],
     [strategy |-> 0, direction |-> 7, pad_to_multiple_of |-> 0, pad_id |-> 0,
      pad_type_id |-> 0, pad_token |-> Some("")],
     [strategy |-> 2, direction |-> 1, pad_to_multiple_of |-> 2, pad_id |-> 1,
      pad_type_id |-> 1, pad_token |-> Some("[PAD]")],
     [strategy |-> 3, direction |-> 0, pad_to_multiple_of |-> 0, pad_id |-> 1,
      pad_type_id |-> 0, pad_token |-> Some("[PAD]")],
     [strategy |-> 0, direction |-> 1, pad_to_multiple_of |-> 0, pad_id |-> 0,
      pad_type_id |-> 0, pad_token |-> Some(InvalidUtf8Text)]}

\* A null `params` pointer, or a pointer to a record.
PaddingArgs == {None} \cup {Some(p) : p \in PaddingParams}

\* The record's fields as the engine's PaddingParams; pad_token is the Rust
\* String made of the C string (empty for a null pointer).
ToEnginePadding(p) ==
    [strategy |-> IF p.strategy = 0 THEN [kind |-> "BatchLongest"]
                  ELSE [kind |-> "Fixed", size |-> p.strategy],
     direction |-> IF p.direction = 0 THEN "Left" ELSE "Right",
     pad_to_multiple_of |-> IF p.pad_to_multiple_of = 0 THEN None
                            ELSE Some(p.pad_to_multiple_of),
     pad_id |-> p.pad_id,
     pad_type_id |-> p.pad_type_id,
     pad_token |-> IF p.pad_token.some THEN Str(p.pad_token.v) ELSE Str("")]

\* FromEnginePadding with pad_id and pad_type_id written to each other's
\* field.
FromEnginePaddingSwapped(p, pad_token) ==
    [pad_id |-> p.pad_type_id,
     pad_type_id |-> p.pad_id,
     pad_to_multiple_of |-> IF p.pad_to_multiple_of.some THEN p.pad_to_multiple_of.v ELSE 0,
     direction |-> IF p.direction = "Left" THEN 0 ELSE 1,
     strategy |-> IF p.strategy.kind = "BatchLongest" THEN 0 ELSE p.strategy.size,
     pad_token |-> pad_token]

\* The engine's PaddingParams as the record's fields, pad_token being the
\* pointer `pad_token`.
FromEnginePadding(p, pad_token) ==
    [pad_id |-> p.pad_id,
     pad_type_id |-> p.pad_type_id,
     pad_to_multiple_of |-> IF p.pad_to_multiple_of.some THEN p.pad_to_multiple_of.v ELSE 0,
     direction |-> IF p.direction = "Left" THEN 0 ELSE 1,
     strategy |-> IF p.strategy.kind = "BatchLongest" THEN 0 ELSE p.strategy.size,
     pad_token |-> pad_token]

\* Tokenizer::with_padding: never fails.
EngineWithPadding(t, padding) == [t EXCEPT !.padding = padding]

\* Tokenizer::get_padding
EngineGetPadding(t) == t.padding

\* SetPaddingCall with a record whose fields are all zero taken as a request
\* to clear the padding.
SetPaddingCallZeroClears(t, params) ==
    IF params.some /\ (params.v.strategy # 0 \/ params.v.pad_token.some)
    THEN EngineWithPadding(t, Some(ToEnginePadding(params.v)))
    ELSE EngineWithPadding(t, None)

\* tokenizer.with_padding(None) for a null record, and
\* tokenizer.with_padding(Some(..)) of the converted record otherwise.
SetPaddingCall(t, params) ==
    EngineWithPadding(t, IF params.some THEN Some(ToEnginePadding(params.v)) ELSE None)

set_padding_impl(M, tokenizer_ptr, params) ==
    IF tokenizer_ptr = Null THEN Ok(M, Null)      \* o.is_none(): return
    ELSE IF /\ params.some
            /\ params.v.pad_token.some
            /\ params.v.pad_token.v = InvalidUtf8Text
    THEN Panic(M)                                 \* to_str().unwrap()
    ELSE Ok(Store(M, tokenizer_ptr, SetPaddingCall(Tok(M.heap, tokenizer_ptr), params)),
            Null)

\* The padding the engine behind the host's handle holds.
CurPadding == IF hnd = Null THEN None ELSE EngineGetPadding(Tok(heap, hnd))

\* ret.prior is the engine's padding before the call.
set_padding(tokenizer_ptr, params) ==
    /\ Running
    /\ tokenizer_ptr \in Handles
    /\ LET r == set_padding_impl(M0, tokenizer_ptr, params)
       IN  /\ heap' = r.mem.heap
           /\ proc' = IF r.tag = "panic" THEN "aborted" ELSE proc
           /\ ret' = [op |-> "set_padding", handle |-> tokenizer_ptr, params |-> params,
                      prior |-> CurPadding, returned |-> r.tag # "panic"]
    /\ UNCHANGED <<fault, made, hnd, hndFreed, strs, agg, cleared>>

\* PadTokenIntoRaw handing out the C string of an earlier call when one with
\* the same text is still live.
PadTokenIntoRawCached(M, pad_token) ==
    LET same == {x \in DOMAIN M.heap :
                    M.heap[x].kind = "cstring" /\ M.heap[x].data = pad_token}
    IN  IF same # {} THEN [mem |-> M, ptr |-> Min(same)]
        ELSE CStringIntoRaw(M, pad_token)

\* CString::new(p.pad_token.as_bytes()).unwrap().into_raw()
PadTokenIntoRaw(M, pad_token) == CStringIntoRaw(M, pad_token)

\* The result of get_padding: the return value and the caller's record.
get_padding_impl(M, tokenizer_ptr, params) ==
    LET tokenizer == convert_to_tokenizer_ref(M, tokenizer_ptr)
    IN  IF tokenizer.tag # "ok" THEN Panic(M)     \* .expect("Invalid Tokenizer object!?")
        ELSE LET p == EngineGetPadding(tokenizer.val)
             IN  IF ~p.some THEN Ok(M, [value |-> FALSE, params |-> params])
                 ELSE IF ~CStringNewOk(p.v.pad_token) THEN Panic(M)   \* .unwrap()
                 ELSE LET c == PadTokenIntoRaw(M, p.v.pad_token)
                      IN  Ok(c.mem, [value |-> TRUE,
                                     params |-> FromEnginePadding(p.v, c.ptr)])

\* The host holds at most MaxStrs strings it has not released; ret.held are
\* those it held before the call, ret.params is its record after the call.
get_padding(tokenizer_ptr, before) ==
    /\ Running
    /\ tokenizer_ptr \in Handles
    /\ Cardinality(strs) < MaxStrs
    /\ LET r == get_padding_impl(M0, tokenizer_ptr, before)
       IN  /\ heap' = r.mem.heap
           /\ IF r.tag = "panic"
              THEN /\ proc' = "aborted"
                   /\ strs' = strs
                   /\ ret' = [op |-> "get_padding", handle |-> tokenizer_ptr,
                              before |-> before, held |-> strs, returned |-> FALSE]
              ELSE /\ proc' = proc
                   /\ strs' = IF r.val.value THEN strs \cup {r.val.params.pad_token}
                              ELSE strs
                   /\ ret' = [op |-> "get_padding", handle |-> tokenizer_ptr,
                              before |-> before, held |-> strs, returned |-> TRUE,
                              value |-> r.val.value, params |-> r.val.params]
    /\ UNCHANGED <<fault, made, hnd, hndFreed, agg, cleared>>

\* What the host's record holds before a get_padding call.
BlankPaddingRecords ==
    {[strategy |-> 0, direction |-> 0, pad_to_multiple_of |-> 0, pad_id |-> 0,
      pad_type_id |-> 0, pad_token |-> Null],
     [strategy |-> 5, direction |-> 1, pad_to_multiple_of |-> 4, pad_id |-> 1,
      pad_type_id |-> 1, pad_token |-> Null]}

\* The EncodeResults of a host that never filled it in.
ZeroedResults == [len |-> 0, encoded |-> Null, error |-> Null]

\* free_encode_results on an aggregate the boundary did not build.
free_encode_results_of(results) ==
    /\ Running
    /\ LET m == free_encode_results_impl(M0, results)
       IN  /\ heap' = m.heap
           /\ fault' = m.fault
    /\ ret' = [op |-> "free_encode_results", returned |-> TRUE, results |-> results,
               len |-> results.len, had_error |-> results.error # Null,
               live |-> {}, freed |-> {}]
    /\ UNCHANGED <<made, proc, hnd, hndFreed, strs, agg, cleared>>

(***************************************************************************)
(* Specifications.                                                         *)
(***************************************************************************)
Init ==
    /\ heap = [x \in {} |-> None]
    /\ fault = {}
    /\ made = {}
    /\ proc = "running"
    /\ hnd = Null
    /\ hndFreed = FALSE
    /\ strs = {}
    /\ agg = NoAgg
    /\ cleared = "no"
    /\ ret = [op |-> "none", returned |-> TRUE]

\* A call is enabled while the process runs; the host starts an encode call
\* only from a quiescent state, and releases its handle and its strings while
\* it holds no EncodeResults.
CanCall == Running
CanEncode == Running /\ Quiescent
CanRelease == Running /\ agg = NoAgg

\* Load, encode, release.
Next ==
    \/ CanCall /\ \E bytes \in ModelBytes : from_bytes(bytes)
    \/ CanRelease /\ \E ptr \in Handles : free_tokenizer(ptr)
    \/ CanRelease /\ \E ptr \in strs \cup {Null} : free_string(ptr)
    \/ CanEncode /\ \E h \in Handles, message \in Texts, options \in EncodeParams :
          encode(h, message, options)
    \/ CanEncode /\ \E h \in Handles, n \in 0..MaxBatch, options \in EncodeParams :
          \E messages \in [1..n -> Texts] : encode_batch(h, n, messages, options)
    \/ CanCall /\ free_encode_results

Spec == Init /\ [][Next]_vars

\* Load, configure truncation, release.
NextCfg ==
    \/ CanCall /\ \E bytes \in CfgModelBytes : from_bytes(bytes)
    \/ CanCall /\ \E ptr \in Handles : free_tokenizer(ptr)
    \/ CanCall /\ \E ptr \in strs \cup {Null} : free_string(ptr)
    \/ CanCall /\ \E h \in Handles, params \in TruncationArgs : set_truncation(h, params)
    \/ CanCall /\ \E h \in Handles, before \in BlankRecords : get_truncation(h, before)

SpecCfg == Init /\ [][NextCfg]_vars

\* Load, decode, configure padding, release.
NextAux ==
    \/ CanCall /\ \E bytes \in ModelBytes \ {"malformed_nul"} : from_bytes(bytes)
    \/ CanCall /\ \E ptr \in Handles : free_tokenizer(ptr)
    \/ CanCall /\ \E ptr \in strs \cup {Null} : free_string(ptr)
    \/ CanCall /\ \E h \in Handles, ids \in IdArrays, skip \in BOOLEAN : decode(h, ids, skip)
    \/ CanCall /\ \E h \in Handles : vocab_size(h)
    \/ CanCall /\ \E h \in Handles, params \in PaddingArgs : set_padding(h, params)
    \/ CanCall /\ \E h \in Handles, before \in BlankPaddingRecords : get_padding(h, before)
    \/ CanCall /\ free_encode_results_of(ZeroedResults)

SpecAux == Init /\ [][NextAux]_vars

\* The options of the encode calls made while the engine is being configured:
\* every optional field with character offsets, or none with byte offsets.
CfgEncodeParams ==
    {[add_special_tokens |-> b, return_tokens |-> b, return_type_ids |-> b,
      return_special_tokens_mask |-> b, return_attention_mask |-> b,
      return_offsets |-> b, with_offsets_char_mode |-> b] : b \in BOOLEAN}

\* The texts encoded while the engine is being configured.
CfgTexts == {<<>>, <<"e", "a">>}

\* The truncations set between encode and decode calls: none, one that
\* removes nothing on the right and one that removes all but the added token
\* on the left.
CfgTruncationArgs ==
    {None,
     Some([direction |-> 1, strategy |-> 0, max_length |-> MaxLength + 1, stride |-> 0]),
     Some([direction |-> 0, strategy |-> 2, max_length |-> NAddedTokens, stride |-> 0])}

\* The host holds nothing it has to release: no EncodeResults and no string.
CanCallNext == CanRelease /\ strs = {}

\* Load, configure truncation and padding, encode, decode, release; the host
\* releases what a call gave it before its next call.
NextAll ==
    \/ CanCallNext /\ \E bytes \in CfgModelBytes : from_bytes(bytes)
    \/ CanRelease /\ \E ptr \in strs \cup {Null} : free_string(ptr)
    \/ CanCallNext /\ \E h \in Handles, params \in CfgTruncationArgs : set_truncation(h, params)
    \/ CanCallNext /\ \E h \in Handles, before \in BlankRecords : get_truncation(h, before)
    \/ CanCallNext /\ \E h \in Handles, params \in PaddingArgs : set_padding(h, params)
    \/ CanCallNext /\ \E h \in Handles, before \in BlankPaddingRecords : get_padding(h, before)
    \/ CanCallNext /\ \E h \in Handles : vocab_size(h)
    \/ CanCallNext /\ \E h \in Handles, ids \in IdArrays, skip \in BOOLEAN : decode(h, ids, skip)
    \/ CanEncode /\ \E h \in Handles, message \in CfgTexts, options \in CfgEncodeParams :
          encode(h, message, options)
    \/ CanEncode /\ \E h \in Handles, n \in 0..MaxBatch, options \in CfgEncodeParams :
          \E messages \in [1..n -> CfgTexts] : encode_batch(h, n, messages, options)
    \/ CanCall /\ free_encode_results

SpecAll == Init /\ [][NextAll]_vars

\* Load, configure truncation and padding, read the configuration back.
NextRt ==
    \/ CanCallNext /\ \E bytes \in CfgModelBytes : from_bytes(bytes)
    \/ CanCall /\ \E ptr \in strs \cup {Null} : free_string(ptr)
    \/ CanCallNext /\ \E h \in Handles \ {Null}, params \in TruncationArgs :
          set_truncation(h, params)
    \/ CanCallNext /\ \E h \in Handles \ {Null}, before \in BlankRecords :
          get_truncation(h, before)
    \/ CanCallNext /\ \E h \in Handles \ {Null}, params \in PaddingArgs :
          set_padding(h, params)
    \/ CanCallNext /\ \E h \in Handles \ {Null}, before \in BlankPaddingRecords :
          get_padding(h, before)

SpecRt == Init /\ [][NextRt]_vars

(***************************************************************************)
(* What the host sees of the last call.                                    *)
(***************************************************************************)
LastEncode == ret.op \in {"encode", "encode_batch"} /\ ret.returned
EncodeOk == LastEncode /\ ret.value.error = Null
EncodeFailed == LastEncode /\ ret.value.error # Null

\* The Buffer structs behind an aggregate's `encoded` pointer.
BuffersOf(a) == IF a.len > 0 THEN heap[a.encoded].data ELSE <<>>

\* A field as read through its pointer: absent, or the elements behind it.
Field(p) ==
    IF p = Null THEN [present |-> FALSE]
    ELSE [present |-> TRUE, data |-> IF p = Dangling THEN <<>> ELSE heap[p].data]

\* The token strings read through the token-pointer array.
TokenField(p) ==
    IF p = Null THEN [present |-> FALSE]
    ELSE LET ptrs == IF p = Dangling THEN <<>> ELSE heap[p].data
         IN  [present |-> TRUE, data |-> [i \in 1..Len(ptrs) |-> heap[ptrs[i]].data]]

BufferView(b) ==
    [len |-> b.len,
     ids |-> Field(b.ids),
     type_ids |-> Field(b.type_ids),
     special_tokens_mask |-> Field(b.special_tokens_mask),
     attention_mask |-> Field(b.attention_mask),
     tokens |-> TokenField(b.tokens),
     offsets |-> Field(b.offsets)]

\* What a buffer of encoding `enc` has to hold under `options`.
Wanted(wanted, xs) == IF wanted THEN [present |-> TRUE, data |-> xs] ELSE [present |-> FALSE]

Marshalled(enc, options) ==
    [len |-> Len(enc.ids),
     ids |-> [present |-> TRUE, data |-> enc.ids],
     type_ids |-> Wanted(options.return_type_ids, enc.type_ids),
     special_tokens_mask |-> Wanted(options.return_special_tokens_mask,
                                    enc.special_tokens_mask),
     attention_mask |-> Wanted(options.return_attention_mask, enc.attention_mask),
     tokens |-> Wanted(options.return_tokens, enc.tokens),
     offsets |-> Wanted(options.return_offsets, enc.offsets)]

\* The engine's encoding of input i of the last encode_batch call (the text
\* is handed to the engine as converted by to_string_lossy).
BatchEncoding(i) ==
    EngineEncode(Tok(heap, ret.handle), ToStringLossy(ret.messages[i]),
                 ret.options.add_special_tokens,
                 ret.options.with_offsets_char_mode).enc

AllKinds == {"buffers", "u32", "ptrs", "cstring", "offsets"}

(***************************************************************************)
(* C1: after free_encode_results on the aggregate of a successful encode   *)
(* or encode_batch call, no allocation made by that call is live any more  *)
(* and none was freed twice.                                               *)
(***************************************************************************)
C1_ReleaseReclaimsAll ==
    (ret.op = "free_encode_results" /\ ~ret.had_error)
        => ret.live = {} /\ "double_free" \notin fault

\* A batch of two whose buffers held every kind of allocation was released.
C1_Witness ==
    /\ ret.op = "free_encode_results"
    /\ ~ret.had_error
    /\ ret.len = 2
    /\ ret.freed = AllKinds

(***************************************************************************)
(* C2: after free_tokenizer on a non-null handle returned by from_bytes,   *)
(* the engine allocation made by the load is no longer live.               *)
(***************************************************************************)
C2_ReleaseReclaimsEngine ==
    (ret.op = "free_tokenizer" /\ ret.ptr # Null) => ret.ptr \notin DOMAIN heap

(***************************************************************************)
(* C3: when encode_batch returns a batch-level error because a token text  *)
(* could not be made a C string, the only allocation of that call still    *)
(* live is the error string.                                               *)
(***************************************************************************)
C3_NoLeakOnMarshalFailure ==
    (/\ ret.op = "encode_batch"
     /\ EncodeFailed
     /\ heap[ret.value.error].data = NulErrorMsg)
        => made \cap DOMAIN heap = {ret.value.error}

(***************************************************************************)
(* C4: every aggregate returned by encode or encode_batch is either an     *)
(* error with len 0 and a null buffer pointer, or no error with len equal  *)
(* to the number of inputs and that many buffers.                          *)
(***************************************************************************)
C4_AggregateShape ==
    LastEncode =>
        LET v == ret.value
        IN  \/ /\ v.error # Null
               /\ v.error \in DOMAIN heap
               /\ heap[v.error].kind = "cstring"
               /\ v.len = 0
               /\ v.encoded = Null
            \/ /\ v.error = Null
               /\ v.len = Len(ret.messages)
               /\ v.encoded # Null
               /\ Len(BuffersOf(v)) = v.len

\* encode_batch returned two buffers and no error.
C4_Witness ==
    /\ ret.op = "encode_batch"
    /\ EncodeOk
    /\ ret.value.len = 2
    /\ Len(BuffersOf(ret.value)) = 2

(***************************************************************************)
(* C5: from_bytes returns, for every input, exactly one of a non-null      *)
(* handle to a newly allocated engine (error null) or a non-null owned     *)
(* error message (handle null, no engine left allocated).                  *)
(***************************************************************************)
C5_LoadExactlyOne ==
    ret.op = "from_bytes" =>
        /\ ret.returned
        /\ \/ /\ ret.value # Null
              /\ ret.error = Null
              /\ ret.value \in DOMAIN heap
              /\ heap[ret.value].kind = "tokenizer"
           \/ /\ ret.value = Null
              /\ ret.error # Null
              /\ ret.error \in DOMAIN heap
              /\ heap[ret.error].kind = "cstring"
              /\ \A x \in DOMAIN heap : heap[x].kind # "tokenizer"

(***************************************************************************)
(* C6: a successful encode_batch returns exactly `count` buffers, and      *)
(* buffer i is the marshaling of the engine's encoding of input i: input   *)
(* order is kept and equal inputs still get separate buffers.              *)
(***************************************************************************)
C6_BatchOrder ==
    (ret.op = "encode_batch" /\ EncodeOk) =>
        LET bufs == BuffersOf(ret.value)
        IN  /\ ret.value.len = Len(ret.messages)
            /\ Len(bufs) = Len(ret.messages)
            /\ \A i \in 1..Len(bufs) :
                  BufferView(bufs[i]) = Marshalled(BatchEncoding(i), ret.options)
            /\ \A i, j \in 1..Len(bufs) :
                  (i # j /\ bufs[i].len > 0) => bufs[i].ids # bufs[j].ids

\* Two different inputs, whose encodings differ, were encoded in one batch.
C6_Witness ==
    /\ ret.op = "encode_batch"
    /\ EncodeOk
    /\ Len(ret.messages) = 2
    /\ ret.messages[1] # ret.messages[2]
    /\ BatchEncoding(1).ids # BatchEncoding(2).ids
    /\ Len(BatchEncoding(1).ids) > 0

(***************************************************************************)
(* C7: in every returned buffer ids and len are populated and an optional  *)
(* field is null exactly when its return_* option is false; releasing the  *)
(* buffers frees the present fields and touches no absent one.             *)
(***************************************************************************)
C7_AbsenceDiscipline ==
    /\ EncodeOk =>
          \A i \in 1..ret.value.len :
              LET b == BuffersOf(ret.value)[i]
                  o == ret.options
              IN  /\ b.ids # Null
                  /\ b.len = Len(Field(b.ids).data)
                  /\ (b.tokens = Null) <=> ~o.return_tokens
                  /\ (b.type_ids = Null) <=> ~o.return_type_ids
                  /\ (b.special_tokens_mask = Null) <=> ~o.return_special_tokens_mask
                  /\ (b.attention_mask = Null) <=> ~o.return_attention_mask
                  /\ (b.offsets = Null) <=> ~o.return_offsets
    /\ (ret.op = "free_encode_results" /\ ~ret.had_error) => fault = {}

\* A buffer with tokens came back with all return_* options false.
C7_Witness ==
    /\ ret.op = "encode"
    /\ EncodeOk
    /\ BuffersOf(ret.value)[1].len > 0
    /\ ~ret.options.return_tokens
    /\ ~ret.options.return_type_ids
    /\ ~ret.options.return_special_tokens_mask
    /\ ~ret.options.return_attention_mask
    /\ ~ret.options.return_offsets

(***************************************************************************)
(* C8: set_truncation on a valid handle with a record whose direction or   *)
(* strategy is outside its domain returns a non-null error message (and    *)
(* leaves the truncation as it was).                                       *)
(***************************************************************************)
C8_OutOfDomainReturnsError ==
    (/\ ret.op = "set_truncation"
     /\ ret.handle # Null
     /\ ret.params.some
     /\ ~(DirectionOk(ret.params.v.direction) /\ StrategyOk(ret.params.v.strategy)))
        => /\ ret.returned
           /\ ret.value # Null
           /\ CurTruncation = ret.prior

(***************************************************************************)
(* C9: set_truncation returns null exactly when the engine's truncation    *)
(* was replaced by the requested one; whenever it returns an error message *)
(* the truncation is what it was before the call.                          *)
(***************************************************************************)
Requested(params) == IF params.some THEN Some(ToEngineTruncation(params.v)) ELSE None

C9_NullIffReplaced ==
    (ret.op = "set_truncation" /\ ret.returned) =>
        /\ (ret.value = Null) <=> (ret.handle # Null /\ CurTruncation = Requested(ret.params))
        /\ (ret.value # Null) => CurTruncation = ret.prior

\* The engine rejected a record while a truncation was configured.
C9_Witness ==
    /\ ret.op = "set_truncation"
    /\ ret.returned
    /\ ret.handle # Null
    /\ ret.value # Null
    /\ ret.prior.some

(***************************************************************************)
(* C10: set_truncation(handle, null) on a valid handle returns null, and   *)
(* from then until the next set_truncation with a non-null record every    *)
(* get_truncation returns false.                                           *)
(***************************************************************************)
C10_ClearThenNotConfigured ==
    /\ (ret.op = "set_truncation" /\ ret.handle # Null /\ ~ret.params.some)
          => ret.returned /\ ret.value = Null
    /\ (cleared # "no" /\ ret.op = "get_truncation" /\ ret.handle # Null)
          => ret.returned /\ ret.value = FALSE

\* get_truncation was called after a truncation that had been set was cleared.
C10_Witness ==
    /\ cleared = "after_set"
    /\ ret.op = "get_truncation"
    /\ ret.handle # Null
    /\ ret.value = FALSE

(***************************************************************************)
(* C11: a decode call on a valid handle whose engine decode fails returns  *)
(* to the caller (with an owned error message) and the process keeps       *)
(* running.                                                                *)
(***************************************************************************)
C11_DecodeFailureReturned ==
    (/\ ret.op = "decode"
     /\ ret.handle # Null
     /\ ~EngineDecode(Tok(heap, ret.handle), ret.ids, ret.skip_special_tokens).ok)
        => ret.returned /\ Running

(***************************************************************************)
(* C12: an encode call on a valid handle whose text is not valid UTF-8     *)
(* returns an aggregate with an error message and zero buffers, and the    *)
(* error string is the only allocation of the call left live.              *)
(***************************************************************************)
C12_InvalidTextFailsCall ==
    (/\ ret.op = "encode"
     /\ ret.handle # Null
     /\ ~ValidUtf8(ret.messages[1]))
        => /\ ret.returned
           /\ Running
           /\ ret.value.error # Null
           /\ ret.value.len = 0
           /\ ret.value.encoded = Null
           /\ made \cap DOMAIN heap = {ret.value.error}

(***************************************************************************)
(* C13: an encode_batch call on a valid handle with an input that is not   *)
(* valid UTF-8 returns one error and zero buffers: no buffer is returned   *)
(* for any input and the invalid input is not encoded.                     *)
(***************************************************************************)
C13_BatchInvalidInputFails ==
    (/\ ret.op = "encode_batch"
     /\ ret.handle # Null
     /\ \E i \in 1..Len(ret.messages) : ~ValidUtf8(ret.messages[i]))
        => /\ ret.returned
           /\ ret.value.error # Null
           /\ ret.value.len = 0
           /\ ret.value.encoded = Null

(***************************************************************************)
(* C14: get_truncation returns true and writes the configured truncation   *)
(* into the caller's record when one is configured; otherwise it returns   *)
(* false and every field of the record is what it was before the call.     *)
(***************************************************************************)
C14_RecordWrittenOnlyWhenConfigured ==
    (ret.op = "get_truncation" /\ ret.returned) =>
        IF CurTruncation.some
        THEN ret.value = TRUE /\ ret.params = FromEngineTruncation(CurTruncation.v)
        ELSE ret.value = FALSE /\ ret.params = ret.before

\* get_truncation returned false to a host whose record held nonzero fields.
C14_Witness ==
    /\ ret.op = "get_truncation"
    /\ ret.returned
    /\ ret.value = FALSE
    /\ ret.before.max_length = MaxLength
    /\ ret.before.direction = 1
    /\ ret.params = ret.before

(***************************************************************************)
(* C15: every get_padding call that returns true hands out in pad_token a  *)
(* new C string, distinct from every string the host still holds, whose    *)
(* text is the engine's pad token; every string the host holds is live,    *)
(* and releasing one with free_string frees that string only: the other    *)
(* strings and the engine's padding stay as they were.                     *)
(***************************************************************************)
C15_PadTokenFreshAndOwned ==
    /\ [](/\ "double_free" \notin fault
          /\ \A p \in strs : p \in DOMAIN heap /\ heap[p].kind = "cstring"
          /\ (ret.op = "get_padding" /\ ret.returned /\ ret.value) =>
                /\ ret.params.pad_token \notin ret.held
                /\ ret.params.pad_token \in strs
                /\ heap[ret.params.pad_token].data = CurPadding.v.pad_token)
    /\ [][(ret'.op = "free_string" /\ ret'.ptr # Null) =>
             /\ CurPadding' = CurPadding
             /\ strs' = strs \ {ret'.ptr}
             /\ ret'.ptr \notin DOMAIN heap'
             /\ \A q \in strs' : q \in DOMAIN heap' /\ heap'[q] = heap[q]]_vars

\* Two get_padding calls in a row left the host with two strings of equal
\* text.
C15_Witness ==
    /\ ret.op = "get_padding"
    /\ ret.returned
    /\ ret.value
    /\ ret.held # {}
    /\ Cardinality(strs) = 2
    /\ \A p \in strs : heap[p].data = CurPadding.v.pad_token

(***************************************************************************)
(* C16: get_padding returns true exactly when a padding is configured on   *)
(* the handle, whatever its field values: set_padding with a record (all   *)
(* fields zero included) configures one, set_padding with a null record    *)
(* leaves none configured, and a get_padding that returns false leaves the *)
(* caller's record as it was.                                              *)
(***************************************************************************)
C16_TrueIffConfigured ==
    /\ (ret.op = "set_padding" /\ ret.handle # Null /\ ret.returned)
          => (CurPadding.some <=> ret.params.some)
    /\ (ret.op = "get_padding" /\ ret.returned)
          => /\ ret.value <=> CurPadding.some
             /\ ~ret.value => ret.params = ret.before

\* get_padding returned true with every field zero and an empty pad token.
C16_Witness ==
    /\ ret.op = "get_padding"
    /\ ret.returned
    /\ ret.value
    /\ ret.params.strategy = 0
    /\ ret.params.direction = 0
    /\ ret.params.pad_to_multiple_of = 0
    /\ ret.params.pad_id = 0
    /\ ret.params.pad_type_id = 0
    /\ heap[ret.params.pad_token].data = Str("")

(***************************************************************************)
(* C17: encode, encode_batch, decode, set_truncation, get_truncation,      *)
(* set_padding and get_padding, called with a null handle, return to the   *)
(* caller and the process keeps running.                                   *)
(***************************************************************************)
C17_NullHandleRejected ==
    (/\ ret.op \in {"encode", "encode_batch", "decode", "set_truncation",
                    "get_truncation", "set_padding", "get_padding"}
     /\ ret.handle = Null)
        => ret.returned /\ Running

(***************************************************************************)
(* C18: free_tokenizer(null), free_string(null) and free_encode_results on *)
(* an aggregate with a null error, len 0 and a null buffer pointer free    *)
(* nothing and change nothing.                                             *)
(***************************************************************************)
C18_NullReleaseNoOp ==
    [][(\/ ret'.op = "free_tokenizer" /\ ret'.ptr = Null
        \/ ret'.op = "free_string" /\ ret'.ptr = Null
        \/ ret'.op = "free_encode_results" /\ ret'.results = ZeroedResults)
          => UNCHANGED <<heap, fault, made, proc, hnd, hndFreed, strs, agg, cleared>>]_vars

\* free_string(null) was called while the host held a handle and a string.
C18_Witness ==
    /\ ret.op = "free_string"
    /\ ret.ptr = Null
    /\ HandleValid
    /\ strs # {}
    /\ strs \subseteq DOMAIN heap

(***************************************************************************)
(* C19: in every returned buffer each present field holds exactly `len`    *)
(* elements in an allocation of capacity `len` (none at all when len is    *)
(* 0), so the release, which rebuilds every field from (pointer, len,      *)
(* len), frees each one with the layout it was allocated with.             *)
(***************************************************************************)
C19_FieldsSizedByLen ==
    /\ EncodeOk =>
          \A i \in 1..ret.value.len :
              LET b == BuffersOf(ret.value)[i]
              IN  \A p \in {b.ids, b.type_ids, b.special_tokens_mask,
                            b.attention_mask, b.tokens, b.offsets} \ {Null} :
                      IF p = Dangling THEN b.len = 0
                      ELSE /\ p \in DOMAIN heap
                           /\ heap[p].cap = b.len
                           /\ Len(heap[p].data) = b.len
    /\ (ret.op = "free_encode_results" /\ ~ret.had_error) => "bad_layout" \notin fault

\* A buffer of three tokens came back with every optional field present.
C19_Witness ==
    /\ ret.op = "encode"
    /\ EncodeOk
    /\ BuffersOf(ret.value)[1].len = 3
    /\ ret.options.return_tokens
    /\ ret.options.return_type_ids
    /\ ret.options.return_special_tokens_mask
    /\ ret.options.return_attention_mask
    /\ ret.options.return_offsets

(***************************************************************************)
(* C20: the buffers of a successful encode or encode_batch call hold the   *)
(* ids and offsets of the engine entry point selected by the character     *)
(* offset option (character offsets when it is true, byte offsets when     *)
(* false), called with the add_special_tokens given.                       *)
(***************************************************************************)
C20_OffsetModeSelectsEntryPoint ==
    EncodeOk =>
        \A i \in 1..ret.value.len :
            LET b == BuffersOf(ret.value)[i]
                enc == EngineEncode(Tok(heap, ret.handle), ToStringLossy(ret.messages[i]),
                                    ret.options.add_special_tokens,
                                    ret.options.with_offsets_char_mode).enc
            IN  /\ Field(b.ids).data = enc.ids
                /\ ret.options.return_offsets => Field(b.offsets).data = enc.offsets

\* encode_batch returned character offsets for a text whose byte offsets are
\* different.
C20_Witness ==
    /\ ret.op = "encode_batch"
    /\ EncodeOk
    /\ ret.value.len > 0
    /\ ret.options.return_offsets
    /\ ret.options.with_offsets_char_mode
    /\ ret.options.add_special_tokens
    /\ Field(BuffersOf(ret.value)[1].offsets).data
          # EngineEncode(Tok(heap, ret.handle), ToStringLossy(ret.messages[1]),
                         TRUE, FALSE).enc.offsets

(***************************************************************************)
(* C21: a get_truncation that follows a set_truncation which accepted a    *)
(* record returns true with the four fields of that record; a get_padding  *)
(* that follows a set_padding with a record returns true with the record's *)
(* strategy, pad_to_multiple_of, pad_id and pad_type_id, direction 0 for 0 *)
(* and 1 for any other value, and the record's pad token text, empty for a *)
(* null pad token.                                                         *)
(***************************************************************************)
C21_SetGetRoundTrip ==
    /\ [][(/\ ret.op = "set_truncation"
           /\ ret.returned
           /\ ret.value = Null
           /\ ret.params.some
           /\ ret'.op = "get_truncation"
           /\ ret'.returned)
             => /\ ret'.value = TRUE
                /\ ret'.params = ret.params.v]_vars
    /\ [][(/\ ret.op = "set_padding"
           /\ ret.returned
           /\ ret.params.some
           /\ ret'.op = "get_padding"
           /\ ret'.returned)
             => /\ ret'.value = TRUE
                /\ ret'.params.strategy = ret.params.v.strategy
                /\ ret'.params.pad_to_multiple_of = ret.params.v.pad_to_multiple_of
                /\ ret'.params.pad_id = ret.params.v.pad_id
                /\ ret'.params.pad_type_id = ret.params.v.pad_type_id
                /\ ret'.params.direction = (IF ret.params.v.direction = 0 THEN 0 ELSE 1)
                /\ heap'[ret'.params.pad_token].data
                      = Str(IF ret.params.v.pad_token.some THEN ret.params.v.pad_token.v
                            ELSE "")]_vars

\* get_padding returned direction 1 and a fixed length with a pad token text
\* for a handle that also has a truncation configured.
C21_Witness ==
    /\ ret.op = "get_padding"
    /\ ret.returned
    /\ ret.value
    /\ ret.params.direction = 1
    /\ ret.params.strategy = 2
    /\ ret.params.pad_id = 1
    /\ ret.params.pad_type_id = 1
    /\ heap[ret.params.pad_token].data = Str("[PAD]")
    /\ CurTruncation.some

(***************************************************************************)
(* C22: vocab_size, get_truncation, get_padding, encode, encode_batch and  *)
(* decode on a valid handle leave the engine's truncation and padding as   *)
(* they were, whether they return or not; the truncation changes only in a *)
(* set_truncation call and the padding only in a set_padding call.         *)
(***************************************************************************)
C22_ReadOnlyKeepsConfiguration ==
    /\ [][(/\ ret'.op \in {"vocab_size", "get_truncation", "get_padding",
                          "encode", "encode_batch", "decode"}
           /\ ret'.handle # Null)
             => CurTruncation' = CurTruncation /\ CurPadding' = CurPadding]_vars
    /\ [][CurTruncation' # CurTruncation => ret'.op = "set_truncation"]_vars
    /\ [][CurPadding' # CurPadding => ret'.op = "set_padding"]_vars

\* decode returned a text for a handle with a truncation and a padding
\* configured.
C22_Witness ==
    /\ ret.op = "decode"
    /\ ret.returned
    /\ ret.handle # Null
    /\ CurTruncation.some
    /\ CurPadding.some

====
